---- MODULE Spec2Model ----
(***************************************************************************)
(* A model of the shashki-engine library: bit boards, moves with their     *)
(* follow moves, the Game, the move generation and the engine.              *)
(*                                                                         *)
(* A 64-bit word (unsigned long long) is modelled as the set of the        *)
(* positions 0..63 of its 1-bits: & is \cap, | is \cup, ~ is the           *)
(* complement in 0..63 and a shift moves every position and drops the      *)
(* ones that leave 0..63.                                                  *)
(***************************************************************************)
EXTENDS Integers, Sequences, FiniteSets, TLC

VARIABLES
    \* the Game object
    bit_board, current_turn, executed_moves,
    \* the last operation on it: its name, the move passed or returned, the
    \* Game before it and the depth passed to best_move
    op, arg, prev, engine_level,
    \* the inputs of the generator called on a board of its own, the moves it
    \* returned, the board a move was shrunk to and the shrunk move
    gen_board, gen_side, gen_capture, gen_moves, gen_target, gen_result

vars == <<bit_board, current_turn, executed_moves, op, arg, prev, engine_level,
          gen_board, gen_side, gen_capture, gen_moves, gen_target, gen_result>>

game_vars == <<bit_board, current_turn, executed_moves, prev, engine_level>>

gen_vars == <<gen_board, gen_side, gen_capture, gen_moves, gen_target, gen_result>>

(***************************************************************************)
(* Bounds of the model.                                                    *)
(***************************************************************************)
\* The most moves a Game executes.
MaxPlies == 15

\* The most enemy pieces on a board the generator is called on directly.
MaxEnemies == 2

\* The places in the generated list a caller of execute_move takes its move
\* from (the last move of the list when the list is shorter).  With these
\* the Game reaches, within MaxPlies moves, captures with several paths,
\* promotions, Kings, and move combos in which the piece in the combo has
\* continuations of different value while another piece has a capture.
MoveChoices == {5, 9}

\* The depths best_move is called with.
SearchDepths == 1..2

(***************************************************************************)
(* common: Side, PieceType, Piece, BitBoard                                *)
(***************************************************************************)
WHITE == "WHITE"

BLACK == "BLACK"

MAN == "MAN"

KING == "KING"

Sides == {WHITE, BLACK}

PieceTypes == {MAN, KING}

Positions == 0..63

side_opposite(side) == IF side = WHITE THEN BLACK ELSE WHITE

Piece(side, piece_type, position) ==
    [side |-> side, piece_type |-> piece_type, position |-> position]

BitBoard(white_men, white_kings, black_men, black_kings) ==
    [white_men |-> white_men, white_kings |-> white_kings,
     black_men |-> black_men, black_kings |-> black_kings]

\* BitBoard(): the start constellation.
InitialBitBoard ==
    BitBoard({1, 3, 5, 7, 8, 10, 12, 14, 17, 19, 21, 23}, {},
             {40, 42, 44, 46, 49, 51, 53, 55, 56, 58, 60, 62}, {})

pieces_of_side_and_type(b, side, piece_type) ==
    IF side = WHITE
    THEN (IF piece_type = MAN THEN b.white_men ELSE b.white_kings)
    ELSE (IF piece_type = MAN THEN b.black_men ELSE b.black_kings)

\* A variant of blocking_board that leaves the black pieces out.
BlockingBoardWhiteOnly(b) == b.white_men \cup b.white_kings

blocking_board(b) ==
    b.white_men \cup b.white_kings \cup b.black_men \cup b.black_kings

blocking_board_of_side(b, side) ==
    IF side = WHITE
    THEN b.white_men \cup b.white_kings
    ELSE b.black_men \cup b.black_kings

piece_type_on_position(b, position) ==
    IF position \in (b.white_men \cup b.black_men) THEN MAN ELSE KING

(***************************************************************************)
(* common: Move.  An absent attacked_piece (std::optional) is the empty    *)
(* sequence, a present one a sequence of one Piece.                        *)
(***************************************************************************)
NoPiece == << >>

SomePiece(piece) == <<piece>>

has_value(optional) == optional # << >>

\* A variant of MoveRemovePieces that leaves the moving piece on its source.
MoveRemovesAttackedPieceOnly(moving_piece, attacked_piece, source_bit_board) ==
    LET gone == IF has_value(attacked_piece)
                THEN {attacked_piece[1].position} ELSE {}
    IN  BitBoard(source_bit_board.white_men \ gone,
                 source_bit_board.white_kings \ gone,
                 source_bit_board.black_men \ gone,
                 source_bit_board.black_kings \ gone)

\* A variant of MoveRemovePieces that leaves the attacked piece on the board.
MoveRemovesMovingPieceOnly(moving_piece, attacked_piece, source_bit_board) ==
    BitBoard(source_bit_board.white_men \ {moving_piece.position},
             source_bit_board.white_kings \ {moving_piece.position},
             source_bit_board.black_men \ {moving_piece.position},
             source_bit_board.black_kings \ {moving_piece.position})

\* Steps 1 and 2 of the constructor: the source position and the attacked
\* position are cleared in all four words.
MoveRemovePieces(moving_piece, attacked_piece, source_bit_board) ==
    LET gone == {moving_piece.position} \cup
                (IF has_value(attacked_piece)
                 THEN {attacked_piece[1].position} ELSE {})
    IN  BitBoard(source_bit_board.white_men \ gone,
                 source_bit_board.white_kings \ gone,
                 source_bit_board.black_men \ gone,
                 source_bit_board.black_kings \ gone)

\* A variant of MoveInsertPiece that inserts a Man that promotes as a Man.
MoveInsertPieceOfItsType(b, moving_piece, target_position, promotion) ==
    IF moving_piece.side = WHITE /\ moving_piece.piece_type = KING
    THEN [b EXCEPT !.white_kings = @ \cup {target_position}]
    ELSE IF moving_piece.side = WHITE
    THEN [b EXCEPT !.white_men = @ \cup {target_position}]
    ELSE IF moving_piece.side = BLACK /\ moving_piece.piece_type = KING
    THEN [b EXCEPT !.black_kings = @ \cup {target_position}]
    ELSE [b EXCEPT !.black_men = @ \cup {target_position}]

\* Step 3 of the constructor: the moving piece is inserted at its target.
MoveInsertPiece(b, moving_piece, target_position, promotion) ==
    IF moving_piece.side = WHITE /\ (promotion \/ moving_piece.piece_type = KING)
    THEN [b EXCEPT !.white_kings = @ \cup {target_position}]
    ELSE IF moving_piece.side = WHITE
    THEN [b EXCEPT !.white_men = @ \cup {target_position}]
    ELSE IF moving_piece.side = BLACK /\ (promotion \/ moving_piece.piece_type = KING)
    THEN [b EXCEPT !.black_kings = @ \cup {target_position}]
    ELSE [b EXCEPT !.black_men = @ \cup {target_position}]

Move(moving_piece, target_position, attacked_piece, promotion, source_bit_board) ==
    [moving_piece     |-> moving_piece,
     target_position  |-> target_position,
     attacked_piece   |-> attacked_piece,
     promotion        |-> promotion,
     source_bit_board |-> source_bit_board,
     target_bit_board |->
         MoveInsertPiece(
             MoveRemovePieces(moving_piece, attacked_piece, source_bit_board),
             moving_piece, target_position, promotion),
     follow_moves     |-> << >>]

\* A variant of clear_follow_moves that clears nothing.
KeepFollowMoves(move) == move

clear_follow_moves(move) == [move EXCEPT !.follow_moves = << >>]

\* The move and the follow moves below it.
RECURSIVE Nodes(_)
Nodes(move) ==
    {move} \cup UNION {Nodes(move.follow_moves[i]) :
                         i \in 1..Len(move.follow_moves)}

\* A variant of compare_follow_moves_to_bit_board that compares the target
\* board of every move on the paths, not only of the last ones.
CompareAnyNode(move, b) == \E node \in Nodes(move) : node.target_bit_board = b

RECURSIVE compare_follow_moves_to_bit_board(_, _)
compare_follow_moves_to_bit_board(move, b) ==
    IF move.follow_moves = << >>
    THEN move.target_bit_board = b
    ELSE \E i \in 1..Len(move.follow_moves) :
            compare_follow_moves_to_bit_board(move.follow_moves[i], b)

\* The state of a Move that "*result = std::move(*first)" has moved from: its
\* scalar members are copied; its follow_moves vector is left valid but
\* unspecified, empty (emptied) or as it was.
MovedFrom(move, emptied) ==
    IF emptied THEN [move EXCEPT !.follow_moves = << >>] ELSE move

\* std::remove_if(follow_moves.begin(), follow_moves.end(), not matching b):
\* the matching follow moves are moved to the front in their order; the
\* vector keeps its size, and a slot behind them holds what it held, moved
\* from if it matched.  The returned iterator is discarded, nothing is erased.
RemoveIfNotMatching(follow_moves, b, emptied) ==
    LET matches(i) == compare_follow_moves_to_bit_board(follow_moves[i], b)
        kept == SelectSeq(follow_moves,
                          LAMBDA m : compare_follow_moves_to_bit_board(m, b))
    IN  [i \in 1..Len(follow_moves) |->
            IF i <= Len(kept) THEN kept[i]
            ELSE IF matches(i) THEN MovedFrom(follow_moves[i], emptied)
            ELSE follow_moves[i]]

RECURSIVE shrink_follow_moves_to_bit_board(_, _, _)
shrink_follow_moves_to_bit_board(move, b, emptied) ==
    IF move.follow_moves = << >> THEN move
    ELSE LET removed == RemoveIfNotMatching(move.follow_moves, b, emptied)
         IN  [move EXCEPT !.follow_moves =
                 [i \in 1..Len(removed) |->
                     shrink_follow_moves_to_bit_board(removed[i], b, emptied)]]

\* A variant of shrink_follow_moves_randomly that leaves the move as it is.
ShrinkNothing(move) == {move}

\* shrink_follow_moves_randomly: the set of the moves it can leave, one for
\* each outcome of std::sample at every level.
RECURSIVE shrink_follow_moves_randomly(_)
shrink_follow_moves_randomly(move) ==
    IF move.follow_moves = << >> THEN {move}
    ELSE UNION {{[move EXCEPT !.follow_moves = <<shrunk>>] :
                    shrunk \in shrink_follow_moves_randomly(move.follow_moves[i])} :
                i \in 1..Len(move.follow_moves)}

\* The character with the code (the codes of the letters A to H).
Char(code) == <<"A", "B", "C", "D", "E", "F", "G", "H">>[code - 64]

\* std::to_string of a row number.
to_string(number) == <<"1", "2", "3", "4", "5", "6", "7", "8">>[number]

\* The two characters description() appends for a position.
Field(position) == <<Char((7 - (position % 8)) + 65), to_string(position \div 8 + 1)>>

\* description(): the string as the sequence of its characters.
\* A variant of description without step 3, the target field.
DescriptionWithoutTarget(move) ==
    Field(move.moving_piece.position) \o <<"-">>
    \o (IF has_value(move.attacked_piece)
        THEN Field(move.attacked_piece[1].position) \o <<"-">> ELSE << >>)

description(move) ==
    Field(move.moving_piece.position) \o <<"-">>
    \o (IF has_value(move.attacked_piece)
        THEN Field(move.attacked_piece[1].position) \o <<"-">> ELSE << >>)
    \o Field(move.target_position)

(***************************************************************************)
(* move-generation: the four MoveDirections.                               *)
(***************************************************************************)
\* A variant of WALL_NORMAL_LEFT that lets a piece leave column A to the left.
WallNormalLeftOpen == {}

WALL_NORMAL_LEFT == {p \in Positions : p % 8 = 7}

WALL_NORMAL_RIGHT == {p \in Positions : p % 8 = 0}

WALL_NORMAL_UP == 56..63

WALL_NORMAL_DOWN == 0..7

WALL_ATTACK_LEFT == {p \in Positions : p % 8 \in {6, 7}}

WALL_ATTACK_RIGHT == {p \in Positions : p % 8 \in {0, 1}}

WALL_ATTACK_UP == 48..63

WALL_ATTACK_DOWN == 0..15

\* promotion_side is the side whose Man the promotion_check of the direction
\* promotes: White above position 55 (upwards), Black below position 8.
LEFT_UP ==
    [name |-> "LEFT_UP",
     normal_wall |-> WALL_NORMAL_LEFT \cup WALL_NORMAL_UP,
     attack_wall |-> WALL_ATTACK_LEFT \cup WALL_ATTACK_UP,
     position_move |-> 9,
     promotion_side |-> WHITE]

RIGHT_UP ==
    [name |-> "RIGHT_UP",
     normal_wall |-> WALL_NORMAL_RIGHT \cup WALL_NORMAL_UP,
     attack_wall |-> WALL_ATTACK_RIGHT \cup WALL_ATTACK_UP,
     position_move |-> 7,
     promotion_side |-> WHITE]

LEFT_DOWN ==
    [name |-> "LEFT_DOWN",
     normal_wall |-> WALL_NORMAL_LEFT \cup WALL_NORMAL_DOWN,
     attack_wall |-> WALL_ATTACK_LEFT \cup WALL_ATTACK_DOWN,
     position_move |-> -7,
     promotion_side |-> BLACK]

RIGHT_DOWN ==
    [name |-> "RIGHT_DOWN",
     normal_wall |-> WALL_NORMAL_RIGHT \cup WALL_NORMAL_DOWN,
     attack_wall |-> WALL_ATTACK_RIGHT \cup WALL_ATTACK_DOWN,
     position_move |-> -9,
     promotion_side |-> BLACK]

MoveDirections == <<LEFT_UP, RIGHT_UP, LEFT_DOWN, RIGHT_DOWN>>

\* bits << n (n > 0) or bits >> -n (n < 0) on a 64-bit word: the bits that
\* leave the word are lost.
bit_operation(move_direction, bits) ==
    {p + move_direction.position_move : p \in bits} \cap Positions

promotion_check(move_direction, side, piece_type, position) ==
    IF move_direction.promotion_side = WHITE
    THEN side = WHITE /\ piece_type = MAN /\ position > 55
    ELSE side = BLACK /\ piece_type = MAN /\ position < 8

\* The bits of a word in the order of "for (int bit = 0; bit < 64; bit++)".
RECURSIVE BitsAscending(_)
BitsAscending(bits) ==
    IF bits = {} THEN << >>
    ELSE LET bit == CHOOSE x \in bits : \A y \in bits : x <= y
         IN  <<bit>> \o BitsAscending(bits \ {bit})

(***************************************************************************)
(* move-generation: normal moves.  Each helper returns the moves it        *)
(* appends to "moves", in the order it appends them.                       *)
(***************************************************************************)
RECURSIVE generate_normal_moves_with_bit_board(_, _, _, _, _, _)
generate_normal_moves_with_bit_board(b, side, piece_type, move_direction, move_bit_board, move_count) ==
    LET moved == bit_operation(move_direction,
                               move_bit_board \ move_direction.normal_wall)
                 \ blocking_board(b)
        bits  == BitsAscending(moved)
    IN  IF moved = {} THEN << >>
        ELSE [i \in 1..Len(bits) |->
                 Move(Piece(side, piece_type,
                            bits[i] - move_count * move_direction.position_move),
                      bits[i], NoPiece,
                      promotion_check(move_direction, side, piece_type, bits[i]),
                      b)]
             \o (IF piece_type = KING
                 THEN generate_normal_moves_with_bit_board(
                          b, side, piece_type, move_direction, moved, move_count + 1)
                 ELSE << >>)

generate_normal_moves(b, side, piece_type, move_direction) ==
    generate_normal_moves_with_bit_board(
        b, side, piece_type, move_direction,
        pieces_of_side_and_type(b, side, piece_type), 1)

(***************************************************************************)
(* move-generation: follow moves of an attack move.                        *)
(***************************************************************************)
\* The piece type a follow move moves with: a promoted Man goes on as King.
FollowPieceType(move) ==
    IF move.promotion THEN KING ELSE move.moving_piece.piece_type

\* A variant of FollowSlides that ignores the promotion of the move.
FollowSlidesKingOnly(move) == move.moving_piece.piece_type = KING

\* Whether the follow moves of the move are searched with King movement.
FollowSlides(move) ==
    move.moving_piece.piece_type = KING \/ move.promotion

RECURSIVE generate_follow_moves(_, _)
RECURSIVE follow_move_before_enemy(_, _, _, _, _)
RECURSIVE follow_move_after_enemy(_, _, _, _, _, _)

\* Returns the follow moves added to the move for one direction after the
\* enemy has been encountered.
follow_move_after_enemy(move, move_direction, capture_bit_board, move_bit_board, move_count, attack_count) ==
    LET moved == (bit_operation(move_direction,
                                move_bit_board \ move_direction.normal_wall)
                  \ blocking_board(move.target_bit_board))
                 \ capture_bit_board
        bits  == BitsAscending(moved)
        follow_move(bit) ==
            LET attacked == bit - attack_count * move_direction.position_move
                made == Move(Piece(move.moving_piece.side, FollowPieceType(move),
                                   bit - move_count * move_direction.position_move),
                             bit,
                             SomePiece(Piece(move.attacked_piece[1].side,
                                             piece_type_on_position(
                                                 move.target_bit_board, attacked),
                                             attacked)),
                             promotion_check(move_direction, move.moving_piece.side,
                                             FollowPieceType(move), bit),
                             move.target_bit_board)
            IN  generate_follow_moves(made, capture_bit_board \cup {attacked})
    IN  IF moved = {} THEN << >>
        ELSE [i \in 1..Len(bits) |-> follow_move(bits[i])]
             \o (IF FollowSlides(move)
                 THEN follow_move_after_enemy(move, move_direction, capture_bit_board,
                                              moved, move_count + 1, attack_count + 1)
                 ELSE << >>)

follow_move_before_enemy(move, move_direction, capture_bit_board, move_bit_board, move_count) ==
    LET moved == bit_operation(move_direction,
                               move_bit_board \ move_direction.attack_wall)
                 \ capture_bit_board
        attack_bit_board ==
            moved \cap blocking_board_of_side(move.target_bit_board,
                                              move.attacked_piece[1].side)
        free == moved \ blocking_board(move.target_bit_board)
    IN  IF moved = {} THEN << >>
        ELSE (IF FollowSlides(move)
              THEN follow_move_before_enemy(move, move_direction, capture_bit_board,
                                            free, move_count + 1)
              ELSE << >>)
             \o follow_move_after_enemy(move, move_direction, capture_bit_board,
                                        attack_bit_board, move_count + 1, 1)

\* A variant of generate_follow_move that starts at the source position of
\* the move.
GenerateFollowMoveFromSource(move, move_direction, capture_bit_board) ==
    follow_move_before_enemy(move, move_direction, capture_bit_board,
                             {move.moving_piece.position}, 1)

generate_follow_move(move, move_direction, capture_bit_board) ==
    follow_move_before_enemy(move, move_direction, capture_bit_board,
                             {move.target_position}, 1)

\* The move with the follow moves of all four directions added.
generate_follow_moves(move, capture_bit_board) ==
    [move EXCEPT !.follow_moves =
        @ \o generate_follow_move(move, LEFT_UP, capture_bit_board)
          \o generate_follow_move(move, RIGHT_UP, capture_bit_board)
          \o generate_follow_move(move, LEFT_DOWN, capture_bit_board)
          \o generate_follow_move(move, RIGHT_DOWN, capture_bit_board)]

(***************************************************************************)
(* move-generation: attack moves.                                          *)
(***************************************************************************)
RECURSIVE move_after_enemy(_, _, _, _, _, _, _, _)
move_after_enemy(b, side, piece_type, move_direction, capture_bit_board, move_bit_board, move_count, attack_count) ==
    LET moved == (bit_operation(move_direction,
                                move_bit_board \ move_direction.normal_wall)
                  \ blocking_board(b))
                 \ capture_bit_board
        bits  == BitsAscending(moved)
        attack_move(bit) ==
            LET attacked == bit - attack_count * move_direction.position_move
                made == Move(Piece(side, piece_type,
                                   bit - move_count * move_direction.position_move),
                             bit,
                             SomePiece(Piece(side_opposite(side),
                                             piece_type_on_position(b, attacked),
                                             attacked)),
                             promotion_check(move_direction, side, piece_type, bit),
                             b)
            IN  generate_follow_moves(made, capture_bit_board \cup {attacked})
    IN  IF moved = {} THEN << >>
        ELSE [i \in 1..Len(bits) |-> attack_move(bits[i])]
             \o (IF piece_type = KING
                 THEN move_after_enemy(b, side, piece_type, move_direction,
                                       capture_bit_board, moved,
                                       move_count + 1, attack_count + 1)
                 ELSE << >>)

RECURSIVE move_before_enemy(_, _, _, _, _, _, _)
move_before_enemy(b, side, piece_type, move_direction, capture_bit_board, move_bit_board, move_count) ==
    LET moved == bit_operation(move_direction,
                               move_bit_board \ move_direction.attack_wall)
                 \ capture_bit_board
        attack_bit_board ==
            moved \cap blocking_board_of_side(b, side_opposite(side))
        free == moved \ blocking_board(b)
    IN  IF moved = {} THEN << >>
        ELSE (IF piece_type = KING
              THEN move_before_enemy(b, side, piece_type, move_direction,
                                     capture_bit_board, free, move_count + 1)
              ELSE << >>)
             \o move_after_enemy(b, side, piece_type, move_direction,
                                 capture_bit_board, attack_bit_board,
                                 move_count + 1, 1)

generate_attack_moves(b, side, piece_type, move_direction) ==
    move_before_enemy(b, side, piece_type, move_direction, {},
                      pieces_of_side_and_type(b, side, piece_type), 1)

generate_attack_moves_for_piece(b, piece, move_direction, capture_bit_board) ==
    move_before_enemy(b, piece.side, piece.piece_type, move_direction,
                      capture_bit_board, {piece.position}, 1)

\* The attack moves of generate_moves_for_side: Men first, then Kings, each
\* in the four directions.
AttackMovesForSide(b, side) ==
    generate_attack_moves(b, side, MAN, LEFT_UP)
    \o generate_attack_moves(b, side, MAN, RIGHT_UP)
    \o generate_attack_moves(b, side, MAN, LEFT_DOWN)
    \o generate_attack_moves(b, side, MAN, RIGHT_DOWN)
    \o generate_attack_moves(b, side, KING, LEFT_UP)
    \o generate_attack_moves(b, side, KING, RIGHT_UP)
    \o generate_attack_moves(b, side, KING, LEFT_DOWN)
    \o generate_attack_moves(b, side, KING, RIGHT_DOWN)

\* A variant of NormalMovesForSide in which a Man steps backwards too.
NormalMovesAllDirections(b, side) ==
    generate_normal_moves(b, side, MAN, LEFT_UP)
    \o generate_normal_moves(b, side, MAN, RIGHT_UP)
    \o generate_normal_moves(b, side, MAN, LEFT_DOWN)
    \o generate_normal_moves(b, side, MAN, RIGHT_DOWN)
    \o generate_normal_moves(b, side, KING, LEFT_UP)
    \o generate_normal_moves(b, side, KING, RIGHT_UP)
    \o generate_normal_moves(b, side, KING, LEFT_DOWN)
    \o generate_normal_moves(b, side, KING, RIGHT_DOWN)

\* The normal moves of generate_moves_for_side: a Man only forwards.
NormalMovesForSide(b, side) ==
    (IF side = WHITE
     THEN generate_normal_moves(b, side, MAN, LEFT_UP)
          \o generate_normal_moves(b, side, MAN, RIGHT_UP)
     ELSE generate_normal_moves(b, side, MAN, LEFT_DOWN)
          \o generate_normal_moves(b, side, MAN, RIGHT_DOWN))
    \o generate_normal_moves(b, side, KING, LEFT_UP)
    \o generate_normal_moves(b, side, KING, RIGHT_UP)
    \o generate_normal_moves(b, side, KING, LEFT_DOWN)
    \o generate_normal_moves(b, side, KING, RIGHT_DOWN)

\* A variant of generate_moves_for_side that returns the normal moves with
\* the attack moves.
GenerateMovesForSideAll(b, side) ==
    AttackMovesForSide(b, side) \o NormalMovesForSide(b, side)

\* A variant of AttackOrNormalMoves that never adds the normal moves.
AttackMovesOnly(moves, b, side) == moves

\* "if (!moves.empty()) return moves;" and the normal moves after it.
AttackOrNormalMoves(moves, b, side) ==
    IF moves = << >> THEN NormalMovesForSide(b, side) ELSE moves

generate_moves_for_side(b, side) ==
    AttackOrNormalMoves(AttackMovesForSide(b, side), b, side)

generate_moves_for_piece(b, piece, capture_bit_board) ==
    generate_attack_moves_for_piece(b, piece, LEFT_UP, capture_bit_board)
    \o generate_attack_moves_for_piece(b, piece, RIGHT_UP, capture_bit_board)
    \o generate_attack_moves_for_piece(b, piece, LEFT_DOWN, capture_bit_board)
    \o generate_attack_moves_for_piece(b, piece, RIGHT_DOWN, capture_bit_board)

(***************************************************************************)
(* common: Game.  A Game value is a record of its three members.           *)
(***************************************************************************)
Game(b, turn, moves) ==
    [bit_board |-> b, current_turn |-> turn, executed_moves |-> moves]

\* Game(): the initial state.
InitialGame == Game(InitialBitBoard, WHITE, << >>)

back(moves) == moves[Len(moves)]

pop_back(moves) == SubSeq(moves, 1, Len(moves) - 1)

\* A variant of execute_move that keeps the turn after every capture.
ExecuteMoveKeepsTurnAfterCapture(g, move) ==
    LET pushed == Append(g.executed_moves, clear_follow_moves(move))
    IN  Game(back(pushed).target_bit_board,
             IF has_value(move.attacked_piece)
             THEN g.current_turn ELSE side_opposite(g.current_turn),
             pushed)

\* A variant of execute_move that changes the turn after every move.
ExecuteMoveAlwaysFlips(g, move) ==
    LET pushed == Append(g.executed_moves, clear_follow_moves(move))
    IN  Game(back(pushed).target_bit_board, side_opposite(g.current_turn), pushed)

execute_move(g, move) ==
    LET pushed == Append(g.executed_moves, clear_follow_moves(move))
    IN  Game(back(pushed).target_bit_board,
             IF move.follow_moves = << >>
             THEN side_opposite(g.current_turn) ELSE g.current_turn,
             pushed)

\* "while ((current_turn == executed_moves.back().side) == same) pop_back()".
\* The loop reads back() of the vector it pops.  A run that never reads an
\* empty vector ends with at least one entry, so the result << >> stands for
\* the run that pops the last entry and then reads back() of an empty vector.
RECURSIVE PopWhile(_, _, _)
PopWhile(moves, turn, same) ==
    IF moves = << >> THEN << >>
    ELSE IF (turn = back(moves).moving_piece.side) = same
    THEN PopWhile(pop_back(moves), turn, same)
    ELSE moves

\* The executed moves left by the two loops of undo_last_move.
UndoPopped(g) ==
    PopWhile(PopWhile(g.executed_moves, g.current_turn, FALSE),
             g.current_turn, TRUE)

\* A variant of UndoUndefined for a check "size() < 2" before the loops.
UndoUndefinedFromTwo(g) ==
    Len(g.executed_moves) >= 2 /\ UndoPopped(g) = << >>

\* undo_last_move reads back() of an empty vector: undefined behaviour.
UndoUndefined(g) ==
    Len(g.executed_moves) >= 3 /\ UndoPopped(g) = << >>

\* A variant of undo_last_move without the second loop.
UndoLastTurnOnly(g) ==
    IF Len(g.executed_moves) < 3 THEN g
    ELSE Game(back(PopWhile(g.executed_moves, g.current_turn, FALSE)).target_bit_board,
              g.current_turn,
              PopWhile(g.executed_moves, g.current_turn, FALSE))

\* A variant of undo_last_move that, with less than 3 executed moves, goes
\* back to the initial state.
UndoStartsAgain(g) ==
    IF Len(g.executed_moves) < 3 THEN InitialGame
    ELSE Game(back(UndoPopped(g)).target_bit_board, g.current_turn, UndoPopped(g))

\* A variant of undo_last_move that leaves the board as it is.
UndoKeepsBoard(g) ==
    IF Len(g.executed_moves) < 3 THEN g
    ELSE Game(g.bit_board, g.current_turn, UndoPopped(g))

\* A variant of undo_last_move that hands the turn to the other side.
UndoFlipsTurn(g) ==
    IF Len(g.executed_moves) < 3 THEN g
    ELSE Game(back(UndoPopped(g)).target_bit_board,
              side_opposite(g.current_turn), UndoPopped(g))

undo_last_move(g) ==
    IF Len(g.executed_moves) < 3 THEN g
    ELSE Game(back(UndoPopped(g)).target_bit_board, g.current_turn, UndoPopped(g))

\* A variant of in_move_combo that is true after every capture.
InMoveComboAfterCapture(g) ==
    /\ g.executed_moves # << >>
    /\ has_value(back(g.executed_moves).attacked_piece)

in_move_combo(g) ==
    /\ g.executed_moves # << >>
    /\ g.current_turn = back(g.executed_moves).moving_piece.side

\* A variant of move_combo_piece that keeps the type of a promoted Man.
MoveComboPieceOfItsType(g) ==
    LET last_move == back(g.executed_moves)
    IN  Piece(last_move.moving_piece.side, last_move.moving_piece.piece_type,
              last_move.target_position)

move_combo_piece(g) ==
    LET last_move == back(g.executed_moves)
    IN  Piece(last_move.moving_piece.side,
              IF last_move.promotion THEN KING ELSE last_move.moving_piece.piece_type,
              last_move.target_position)

\* The loop runs from the last executed move backwards while the move is
\* one of the side in turn.
RECURSIVE CaptureBits(_, _)
CaptureBits(moves, turn) ==
    IF moves = << >> \/ back(moves).moving_piece.side # turn THEN {}
    ELSE {back(moves).attacked_piece[1].position}
         \cup CaptureBits(pop_back(moves), turn)

\* A variant of capture_bit_board that forgets the captured pieces.
CaptureBitBoardEmpty(g) == {}

capture_bit_board(g) == CaptureBits(g.executed_moves, g.current_turn)

generate_moves_for_game(g) ==
    IF in_move_combo(g)
    THEN generate_moves_for_piece(g.bit_board, move_combo_piece(g),
                                  capture_bit_board(g))
    ELSE generate_moves_for_side(g.bit_board, g.current_turn)

(***************************************************************************)
(* evaluation                                                              *)
(***************************************************************************)
WEIGHT_MAN == 1

WEIGHT_KING == 5

\* A variant of evaluate_bit_board_part that counts the pieces without
\* their weight.
EvaluatePartUnweighted(bit_board_part, evaluation_weight) ==
    Cardinality(bit_board_part)

evaluate_bit_board_part(bit_board_part, evaluation_weight) ==
    Cardinality(bit_board_part) * evaluation_weight

evaluate_bit_board(b) ==
    evaluate_bit_board_part(b.white_men, WEIGHT_MAN)
    + evaluate_bit_board_part(b.white_kings, WEIGHT_KING)
    + evaluate_bit_board_part(b.black_men, -WEIGHT_MAN)
    + evaluate_bit_board_part(b.black_kings, -WEIGHT_KING)

(***************************************************************************)
(* engine.  The child nodes of an EngineNode are the sequence of their     *)
(* boards, front first.  A BitBoard* is the empty sequence (NULL) or the   *)
(* sequence of the board it points to.                                     *)
(***************************************************************************)
NULL == << >>

EngineResult(evaluation_value, ancestor_move_bit_board) ==
    [evaluation_value |-> evaluation_value,
     ancestor_move_bit_board |-> ancestor_move_bit_board]

\* The child nodes after the move has been converted: push_front puts the
\* board of every end of a combo path before the nodes already there.
RECURSIVE convert_move_combo_to_child_nodes(_, _)
RECURSIVE ConvertFollowMoves(_, _, _)
convert_move_combo_to_child_nodes(child_nodes, move) ==
    IF move.follow_moves = << >>
    THEN <<move.target_bit_board>> \o child_nodes
    ELSE ConvertFollowMoves(child_nodes, move.follow_moves, 1)

ConvertFollowMoves(child_nodes, follow_moves, i) ==
    IF i > Len(follow_moves) THEN child_nodes
    ELSE ConvertFollowMoves(
             convert_move_combo_to_child_nodes(child_nodes, follow_moves[i]),
             follow_moves, i + 1)

\* The child nodes of a node for its possible moves.
RECURSIVE ChildNodes(_, _, _)
ChildNodes(child_nodes, possible_moves, i) ==
    IF i > Len(possible_moves) THEN child_nodes
    ELSE ChildNodes(
             convert_move_combo_to_child_nodes(child_nodes, possible_moves[i]),
             possible_moves, i + 1)

\* A variant of ALPHA_START that is a value a board can have.
AlphaStartZero == evaluate_bit_board(InitialBitBoard)

ALPHA_START == -100

BETA_START == 100

RECURSIVE build_and_evaluate(_, _, _, _, _, _)
RECURSIVE EvaluateChildren(_, _, _, _, _, _, _, _)
RECURSIVE EvaluateChild(_, _, _, _, _, _, _, _, _)

\* The loop over the child nodes from child i on, with the best result so
\* far; it ends at the end of the list or at the break.
EvaluateChildren(child_nodes, i, side, depth, alpha, beta, ancestor_move_bit_board, best) ==
    IF i > Len(child_nodes) THEN best
    ELSE EvaluateChild(
             child_nodes, i, side, depth, alpha, beta, ancestor_move_bit_board, best,
             build_and_evaluate(
                 child_nodes[i], side_opposite(side), depth - 1, alpha, beta,
                 IF ancestor_move_bit_board = NULL
                 THEN <<child_nodes[i]>> ELSE ancestor_move_bit_board))

\* A variant of EvaluateChild that takes every evaluation as the best one.
EvaluateChildKeepsLast(child_nodes, i, side, depth, alpha, beta, ancestor_move_bit_board, best, evaluation) ==
    LET value == evaluation.evaluation_value
        new_alpha == IF side = WHITE /\ value > alpha THEN value ELSE alpha
        new_beta == IF side = BLACK /\ value < beta THEN value ELSE beta
    IN  IF new_beta <= new_alpha THEN evaluation
        ELSE EvaluateChildren(child_nodes, i + 1, side, depth, new_alpha,
                              new_beta, ancestor_move_bit_board, evaluation)

\* The body of the loop for the evaluation of child i.
EvaluateChild(child_nodes, i, side, depth, alpha, beta, ancestor_move_bit_board, best, evaluation) ==
    LET value == evaluation.evaluation_value
        better == IF side = WHITE
                  THEN value > best.evaluation_value
                  ELSE value < best.evaluation_value
        new_best == IF better THEN evaluation ELSE best
        new_alpha == IF side = WHITE /\ value > alpha THEN value ELSE alpha
        new_beta == IF side = BLACK /\ value < beta THEN value ELSE beta
    IN  IF new_beta <= new_alpha THEN new_best
        ELSE EvaluateChildren(child_nodes, i + 1, side, depth, new_alpha,
                              new_beta, ancestor_move_bit_board, new_best)

\* build_and_evaluate from the test of the possible moves on.
EvaluateMoves(b, side, depth, alpha, beta, ancestor_move_bit_board, possible_moves) ==
    IF possible_moves = << >>
    THEN EngineResult(evaluate_bit_board(b), ancestor_move_bit_board)
    ELSE EvaluateChildren(
             ChildNodes(<< >>, possible_moves, 1), 1, side, depth,
             alpha, beta, ancestor_move_bit_board,
             EngineResult(IF side = WHITE THEN ALPHA_START ELSE BETA_START, NULL))

build_and_evaluate(b, side, depth, alpha, beta, ancestor_move_bit_board) ==
    IF depth = 0
    THEN EngineResult(evaluate_bit_board(b), ancestor_move_bit_board)
    ELSE EvaluateMoves(b, side, depth, alpha, beta, ancestor_move_bit_board,
                       generate_moves_for_side(b, side))

\* The result of the search best_move starts with.
EngineSearch(g, depth) ==
    build_and_evaluate(g.bit_board, g.current_turn, depth,
                       ALPHA_START, BETA_START, NULL)

\* The indexes of the possible moves that match the board.
MatchingMoves(possible_moves, b) ==
    {i \in 1..Len(possible_moves) :
        compare_follow_moves_to_bit_board(possible_moves[i], b)}

\* random_move: the set of the moves it can return.
RandomMoves(possible_moves) ==
    UNION {shrink_follow_moves_randomly(possible_moves[i]) :
             i \in 1..Len(possible_moves)}

random_move(g) == RandomMoves(generate_moves_for_game(g))

\* The loop of best_move over the possible moves and its last statement:
\* the set of the moves it can return for the result of the search (one
\* move, unless it falls back to random_move or shrinks with unspecified
\* moved-from follow moves).
FirstMatch(g, possible_moves, matching, ancestor) ==
    IF matching = {} THEN random_move(g)
    ELSE {shrink_follow_moves_to_bit_board(
              possible_moves[CHOOSE i \in matching : \A j \in matching : i <= j],
              ancestor, emptied) : emptied \in BOOLEAN}

MatchPossibleMoves(g, possible_moves, ancestor) ==
    FirstMatch(g, possible_moves, MatchingMoves(possible_moves, ancestor), ancestor)

BestMoveMatch(g, ancestor) ==
    MatchPossibleMoves(g, generate_moves_for_game(g), ancestor)

\* best_move reaches its last statement, "return random_move(game)".
BestMoveFallsBack(g, ancestor) ==
    MatchingMoves(generate_moves_for_game(g), ancestor) = {}

\* best_move: the set of the moves it can return.
best_move(g, depth) ==
    BestMoveMatch(g, EngineSearch(g, depth).ancestor_move_bit_board[1])

(***************************************************************************)
(* The state machine of a Game object driven through its public            *)
(* operations (as the cli and the benchmark drive it).                     *)
(***************************************************************************)
game == Game(bit_board, current_turn, executed_moves)

NoMove == << >>

SetGame(g) ==
    /\ bit_board' = g.bit_board
    /\ current_turn' = g.current_turn
    /\ executed_moves' = g.executed_moves

GameInit ==
    /\ bit_board = InitialGame.bit_board
    /\ current_turn = InitialGame.current_turn
    /\ executed_moves = InitialGame.executed_moves
    /\ prev = InitialGame
    /\ engine_level = 0
    /\ arg = NoMove

GenIdle ==
    /\ gen_side = WHITE
    /\ gen_capture = {}
    /\ gen_moves = << >>
    /\ gen_target = InitialBitBoard
    /\ gen_result = NoMove

Init ==
    /\ GameInit
    /\ op = "Game"
    /\ gen_board = InitialBitBoard
    /\ GenIdle

\* The indexes of the moves a caller chooses among in a list of n moves.
ChosenMoves(n) ==
    {IF choice < n THEN choice ELSE n : choice \in MoveChoices} \ {0}

\* The moves a caller chooses among in a list of moves.
Chosen(moves) == {moves[i] : i \in ChosenMoves(Len(moves))}

\* The result of best_move for the result of the search.
BestMoveReturns(engine_result) ==
    IF engine_result.ancestor_move_bit_board = NULL
    THEN arg' = NoMove /\ op' = "undefined"
    ELSE /\ \E move \in BestMoveMatch(
                    game, engine_result.ancestor_move_bit_board[1]) :
               arg' = <<move>>
         /\ op' = "best_move"

\* game.execute_move(move) for a move of generate_moves_for_game(game),
\* passed with its follow moves (cli make_move).
ExecuteMove ==
    /\ Len(executed_moves) < MaxPlies
    /\ \E move \in Chosen(generate_moves_for_game(game)) :
          /\ SetGame(execute_move(game, move))
          /\ arg' = <<move>>
    /\ op' = "execute_move"
    /\ prev' = game
    /\ UNCHANGED <<engine_level, gen_vars>>

\* game.undo_last_move().  Where the call is undefined (it reads back() of
\* an empty vector) the outcome is any of: the vector left empty with the
\* board kept, or with the initial board.
UndoLastMove ==
    /\ IF UndoUndefined(game)
       THEN /\ \E b \in {bit_board, InitialBitBoard} :
                  SetGame(Game(b, current_turn, << >>))
            /\ op' = "undefined"
       ELSE /\ SetGame(undo_last_move(game))
            /\ op' = "undo_last_move"
    /\ arg' = NoMove
    /\ prev' = game
    /\ UNCHANGED <<engine_level, gen_vars>>

\* best_move(game, depth), called when the game has a move (as the
\* benchmark calls it); the Game is not changed, so that a call right after
\* another one returns what that one returned and is left out.
BestMove ==
    /\ op # "best_move"
    /\ generate_moves_for_game(game) # << >>
    /\ \E depth \in SearchDepths :
          /\ engine_level' = depth
          /\ BestMoveReturns(EngineSearch(game, depth))
    /\ prev' = game
    /\ UNCHANGED <<bit_board, current_turn, executed_moves, gen_vars>>

Next == ExecuteMove \/ UndoLastMove \/ BestMove

Spec == Init /\ [][Next]_vars

\* The Game driven through execute_move and undo_last_move alone (as a
\* player at the cli drives it who asks for no hint).
NextPlay == ExecuteMove \/ UndoLastMove

SpecPlay == Init /\ [][NextPlay]_vars

(***************************************************************************)
(* Properties of the Game (checked under Spec).                            *)
(***************************************************************************)
\* No position is in two of the four words of the board.
Disjoint(b) ==
    /\ b.white_men \cap b.white_kings = {}
    /\ b.white_men \cap b.black_men = {}
    /\ b.white_men \cap b.black_kings = {}
    /\ b.white_kings \cap b.black_men = {}
    /\ b.white_kings \cap b.black_kings = {}
    /\ b.black_men \cap b.black_kings = {}

RECURSIVE MoveBoardsDisjoint(_)
MoveBoardsDisjoint(move) ==
    /\ Disjoint(move.source_bit_board)
    /\ Disjoint(move.target_bit_board)
    /\ \A i \in 1..Len(move.follow_moves) :
          MoveBoardsDisjoint(move.follow_moves[i])

\* C1: in every state of the Game reached from the default Game by
\* execute_move calls on generated moves and undo_last_move calls, the four
\* words of bit_board are pairwise disjoint, and so are the words of the
\* source and the target board of every move (and follow move) that
\* generate_moves_for_game returns from that state.
C1_WordsDisjoint ==
    LET moves == generate_moves_for_game(game)
    IN  /\ Disjoint(bit_board)
        /\ \A i \in 1..Len(moves) : MoveBoardsDisjoint(moves[i])

\* A state reached through a capture and an undo from which the generator
\* returns a capture with follow moves.
C1_Witness ==
    /\ op = "undo_last_move"
    /\ blocking_board(bit_board) # blocking_board(InitialBitBoard)
    /\ \E i \in 1..Len(generate_moves_for_game(game)) :
          generate_moves_for_game(game)[i].follow_moves # << >>

\* C3: execute_move(m) appends a copy of m without follow moves to
\* executed_moves, sets bit_board to the target board of m, and changes
\* current_turn exactly when m was passed without follow moves.
C3_ExecuteMove ==
    op = "execute_move" =>
        LET m == arg[1]
        IN  /\ Len(executed_moves) = Len(prev.executed_moves) + 1
            /\ SubSeq(executed_moves, 1, Len(prev.executed_moves))
                   = prev.executed_moves
            /\ back(executed_moves) = [m EXCEPT !.follow_moves = << >>]
            /\ bit_board = m.target_bit_board
            /\ (m.follow_moves = << >>
                   => current_turn = side_opposite(prev.current_turn))
            /\ (m.follow_moves # << >> => current_turn = prev.current_turn)

\* A move with follow moves has been executed.
C3_Witness ==
    /\ op = "execute_move"
    /\ arg[1].follow_moves # << >>
    /\ current_turn = prev.current_turn

\* C4: bit_board is the target board of the last executed move, or the
\* initial board when there is no executed move.
C4_BoardIsLastTarget ==
    bit_board = IF executed_moves = << >> THEN InitialBitBoard
                ELSE back(executed_moves).target_bit_board

\* An undo_last_move that has removed moves.
C4_Witness ==
    /\ op = "undo_last_move"
    /\ Len(executed_moves) < Len(prev.executed_moves)
    /\ bit_board # prev.bit_board

\* execute_move(move) and then undo_last_move() on the Game g give back the
\* board and the turn of g.
ExecuteUndoRestores(g, move) ==
    LET executed == execute_move(g, move)
    IN  /\ ~UndoUndefined(executed)
        /\ undo_last_move(executed).bit_board = g.bit_board
        /\ undo_last_move(executed).current_turn = g.current_turn

RECURSIVE LeafBoards(_)
LeafBoards(move) ==
    IF move.follow_moves = << >> THEN {move.target_bit_board}
    ELSE UNION {LeafBoards(move.follow_moves[i]) :
                  i \in 1..Len(move.follow_moves)}

\* The board at the end of the path of a move that execute_engine_move_path
\* of the cli follows: the front follow move at every node.
RECURSIVE FrontLeaf(_)
FrontLeaf(move) ==
    IF move.follow_moves = << >> THEN move.target_bit_board
    ELSE FrontLeaf(move.follow_moves[1])

\* The boards at the ends of all paths of all moves of the Game.
TerminalBoards(g) ==
    UNION {LeafBoards(generate_moves_for_game(g)[i]) :
             i \in 1..Len(generate_moves_for_game(g))}

\* C7 as stated: best_move(game, 1) returns a move whose continuation ends
\* on a board with the greatest (White in turn) or the least (Black in turn)
\* evaluate_bit_board value of the boards at the ends of the paths of all
\* moves of generate_moves_for_game(game).
C7_BestMoveDepthOne ==
    (op = "best_move" /\ engine_level = 1) =>
        LET value == evaluate_bit_board(FrontLeaf(arg[1]))
        IN  \A b \in TerminalBoards(game) :
               IF current_turn = WHITE
               THEN evaluate_bit_board(b) <= value
               ELSE evaluate_bit_board(b) >= value

\* C8 as stated: in best_move some move of generate_moves_for_game(game)
\* matches the board the search has chosen, for a Game in a move combo too
\* and for every depth, so that "return random_move(game)" is not reached.
C8_FallbackNotReached ==
    op = "best_move" =>
        ~BestMoveFallsBack(
            game, EngineSearch(game, engine_level).ancestor_move_bit_board[1])

\* undo_last_move never reads back() of an empty vector.
UndoDefined == op # "undefined"

(***************************************************************************)
(* The generator and the shrinking of a move called on boards of their     *)
(* own: one piece (the attacker) of one side and up to MaxEnemies pieces   *)
(* of the other side on the dark squares of the upper half of the board,   *)
(* and the same boards turned by 180 degrees with the sides swapped.       *)
(***************************************************************************)
Row(position) == position \div 8

Column(position) == position % 8

\* The four diagonal directions as <<rows, columns>> of one step.
Diagonals == {<<1, 1>>, <<1, -1>>, <<-1, 1>>, <<-1, -1>>}

OnBoard(position, diagonal, steps) ==
    /\ Row(position) + steps * diagonal[1] \in 0..7
    /\ Column(position) + steps * diagonal[2] \in 0..7

Square(position, diagonal, steps) ==
    position + steps * (8 * diagonal[1] + diagonal[2])

\* The squares the pieces stand on (the start constellation uses them all).
DarkSquares == {p \in Positions : (Row(p) + Column(p)) % 2 = 1}

GenSquares == {p \in DarkSquares : Row(p) >= 4}

\* One square on each of the rows 5 to 7: from row 5 a Man promotes by a
\* capture, from row 6 by a move without one.
GenAttackerSquares == {42, 53, 62}

RECURSIVE SubsetsUpTo(_, _)
SubsetsUpTo(S, n) ==
    IF n = 0 THEN {{}}
    ELSE LET smaller == SubsetsUpTo(S, n - 1)
         IN  smaller \cup {s \cup {x} : s \in smaller, x \in S}

Turned(bits) == {63 - p : p \in bits}

\* The board turned by 180 degrees with the sides swapped.
TurnedBoard(b) ==
    BitBoard(Turned(b.black_men), Turned(b.black_kings),
             Turned(b.white_men), Turned(b.white_kings))

\* A white attacker and black enemies; a Man never stands on its last row.
\* The start constellation is one of the boards too.
GenBoards ==
    LET upper ==
            {BitBoard(IF attacker_type = MAN THEN {attacker} ELSE {},
                      IF attacker_type = KING THEN {attacker} ELSE {},
                      IF enemy_type = MAN THEN enemies ELSE {},
                      IF enemy_type = KING THEN enemies ELSE {}) :
                attacker \in GenAttackerSquares,
                attacker_type \in PieceTypes,
                enemy_type \in PieceTypes,
                enemies \in SubsetsUpTo(GenSquares, MaxEnemies)}
        legal == {b \in upper :
                    /\ b.white_men \cap WALL_NORMAL_UP = {}
                    /\ blocking_board_of_side(b, WHITE)
                       \cap blocking_board_of_side(b, BLACK) = {}}
    IN  legal \cup {TurnedBoard(b) : b \in legal} \cup {InitialBitBoard}

InitGen ==
    /\ GameInit
    /\ op = "BitBoard"
    /\ gen_board \in GenBoards
    /\ gen_side \in Sides
    /\ gen_capture = {}
    /\ gen_moves = << >>
    /\ gen_target = InitialBitBoard
    /\ gen_result = NoMove

\* generate_moves_for_side(gen_board, gen_side)
GenerateMovesForSide ==
    /\ op = "BitBoard"
    /\ gen_moves' = generate_moves_for_side(gen_board, gen_side)
    /\ op' = "generate_moves_for_side"
    /\ arg' = NoMove
    /\ UNCHANGED <<game_vars, gen_board, gen_side, gen_capture, gen_target,
                   gen_result>>

\* The positions next to the position and one further on its diagonals.
Near(position) ==
    {Square(position, diagonal, steps) :
        diagonal \in {d \in Diagonals : OnBoard(position, d, 2)}, steps \in 1..2}
    \cup {Square(position, diagonal, 1) :
             diagonal \in {d \in Diagonals : OnBoard(position, d, 1)}}

\* generate_moves_for_piece(gen_board, piece, capture_bit_board) for a piece
\* of the side and no captured piece or one: on the position of a piece of
\* the other side or on a free position near the piece (where the Game has
\* taken the captured piece from the board).
GenerateMovesForPiece ==
    /\ op = "BitBoard"
    /\ \E position \in blocking_board_of_side(gen_board, gen_side) :
          \E capture \in SubsetsUpTo(
                 (blocking_board_of_side(gen_board, side_opposite(gen_side))
                  \cup Near(position))
                 \ blocking_board_of_side(gen_board, gen_side), 1) :
             /\ gen_moves' = generate_moves_for_piece(
                    gen_board,
                    Piece(gen_side, piece_type_on_position(gen_board, position),
                          position),
                    capture)
             /\ gen_capture' = capture
    /\ op' = "generate_moves_for_piece"
    /\ arg' = NoMove
    /\ UNCHANGED <<game_vars, gen_board, gen_side, gen_target, gen_result>>

\* move.shrink_follow_moves_to_bit_board(b) on a copy of a generated move
\* that matches b (as best_move calls it).
ShrinkFollowMovesToBitBoard ==
    /\ op \in {"generate_moves_for_side", "generate_moves_for_piece"}
    /\ \E i \in 1..Len(gen_moves), emptied \in BOOLEAN :
          \E b \in LeafBoards(gen_moves[i]) :
             /\ arg' = <<gen_moves[i]>>
             /\ gen_target' = b
             /\ gen_result' =
                    <<shrink_follow_moves_to_bit_board(gen_moves[i], b, emptied)>>
    /\ op' = "shrink_follow_moves_to_bit_board"
    /\ UNCHANGED <<game_vars, gen_board, gen_side, gen_capture, gen_moves>>

NextGen ==
    GenerateMovesForSide \/ GenerateMovesForPiece \/ ShrinkFollowMovesToBitBoard

SpecGen == InitGen /\ [][NextGen]_vars

(***************************************************************************)
(* The rules of the captures stated on rows and columns, and the           *)
(* properties of the generator (checked under SpecGen).                    *)
(***************************************************************************)
\* The captures <<attacked position, target position>> of the piece of the
\* side on the position: over free squares (only a King, far) up to a piece
\* of the other side and then over free squares (more than one only a
\* King) to the target, none of the squares being one of a piece captured
\* before.
Captures(b, side, position, far, captured) ==
    LET reach == IF far THEN 1..6 ELSE {1}
        free(diagonal, from, to) ==
            \A n \in from..to :
                Square(position, diagonal, n) \notin blocking_board(b)
        possible(diagonal, before, after) ==
            /\ OnBoard(position, diagonal, before + after)
            /\ free(diagonal, 1, before - 1)
            /\ Square(position, diagonal, before)
                   \in blocking_board_of_side(b, side_opposite(side))
            /\ free(diagonal, before + 1, before + after)
            /\ \A n \in 1..(before + after) :
                   Square(position, diagonal, n) \notin captured
    IN  {<<Square(position, t[1], t[2]), Square(position, t[1], t[2] + t[3])>> :
            t \in {u \in Diagonals \X reach \X reach :
                      possible(u[1], u[2], u[3])}}

\* A piece of the side has a capture.
HasCapture(b, side) ==
    \E position \in blocking_board_of_side(b, side) :
        Captures(b, side, position,
                 piece_type_on_position(b, position) = KING, {}) # {}

\* A piece of the side has a move that is no capture: a step to a free
\* square next to it, for a Man only forwards.
HasNormalMove(b, side) ==
    \E position \in blocking_board_of_side(b, side), diagonal \in Diagonals :
        /\ OnBoard(position, diagonal, 1)
        /\ Square(position, diagonal, 1) \notin blocking_board(b)
        /\ \/ piece_type_on_position(b, position) = KING
           \/ diagonal[1] = (IF side = WHITE THEN 1 ELSE -1)

Generated == op \in {"generate_moves_for_side", "generate_moves_for_piece"}

\* C2: when a piece of the side has a capture, every move that
\* generate_moves_for_side returns has an attacked piece; moves without one
\* are returned only when the side has no capture.
C2_CapturesObligatory ==
    op = "generate_moves_for_side" =>
        \A i \in 1..Len(gen_moves) :
            has_value(gen_moves[i].attacked_piece)
            <=> HasCapture(gen_board, gen_side)

\* The side has a capture and a move that is no capture, and the generator
\* has returned its moves.
C2_Witness ==
    /\ op = "generate_moves_for_side"
    /\ HasCapture(gen_board, gen_side)
    /\ HasNormalMove(gen_board, gen_side)
    /\ gen_moves # << >>

\* Every node of the move has at most one follow move.
RECURSIVE SinglePath(_)
SinglePath(move) ==
    /\ Len(move.follow_moves) <= 1
    /\ \A i \in 1..Len(move.follow_moves) : SinglePath(move.follow_moves[i])

\* C6 as stated: after shrink_follow_moves_to_bit_board(b) on a generated
\* move that matches b, every node of the move has at most one follow move
\* and the target board at the end of the one path is b.
C6_ShrinkLeavesOnePath ==
    op = "shrink_follow_moves_to_bit_board" =>
        /\ SinglePath(gen_result[1])
        /\ FrontLeaf(gen_result[1]) = gen_target

\* The move is a capture and every follow move below it is a capture by the
\* same side that starts where the move before it ended and attacks a
\* position that no move before it on the path has attacked.
RECURSIVE CaptureChain(_, _)
CaptureChain(move, captured) ==
    /\ has_value(move.attacked_piece)
    /\ move.attacked_piece[1].position \notin captured
    /\ \A i \in 1..Len(move.follow_moves) :
          LET follow_move == move.follow_moves[i]
          IN  /\ follow_move.moving_piece.side = move.moving_piece.side
              /\ follow_move.moving_piece.position = move.target_position
              /\ CaptureChain(follow_move,
                              captured \cup {move.attacked_piece[1].position})

\* C9: in every move that generate_moves_for_side or
\* generate_moves_for_piece returns, every path of more than one move is a
\* chain of captures of the same piece, every move starting where the one
\* before it ended, and no two moves of a path attack the same position.
C9_PathsAreCaptureChains ==
    Generated =>
        \A i \in 1..Len(gen_moves) :
            gen_moves[i].follow_moves # << >> => CaptureChain(gen_moves[i], {})

\* The generator has returned a move with a path of more than one move.
C9_Witness ==
    /\ Generated
    /\ \E i \in 1..Len(gen_moves) : gen_moves[i].follow_moves # << >>

\* Every follow move below the move is one of a King and no promotion.
RECURSIVE KingBelow(_)
KingBelow(move) ==
    \A i \in 1..Len(move.follow_moves) :
        /\ move.follow_moves[i].moving_piece.piece_type = KING
        /\ ~move.follow_moves[i].promotion
        /\ KingBelow(move.follow_moves[i])

\* The attacked and the target positions of the follow moves of the move.
FollowCaptures(move) ==
    {<<move.follow_moves[i].attacked_piece[1].position,
       move.follow_moves[i].target_position>> :
        i \in 1..Len(move.follow_moves)}

\* Below every capture of a Man with a promotion in the move the follow
\* moves are those of a King, and the follow moves of that capture are the
\* captures of a King on its target position.
RECURSIVE PromotedFollowsAsKing(_, _)
PromotedFollowsAsKing(move, captured) ==
    LET now == captured \cup {move.attacked_piece[1].position}
    IN  /\ (move.moving_piece.piece_type = MAN /\ move.promotion) =>
              /\ KingBelow(move)
              /\ FollowCaptures(move)
                    = Captures(move.target_bit_board, move.moving_piece.side,
                               move.target_position, TRUE, now)
        /\ \A i \in 1..Len(move.follow_moves) :
              PromotedFollowsAsKing(move.follow_moves[i], now)

\* C10: below a capture of a Man with promotion = true every follow move
\* has a moving piece of type King and is generated with King movement
\* (over any number of free squares before and after the captured piece),
\* and none of them has promotion = true.
C10_PromotedFollowsAsKing ==
    Generated =>
        \A i \in 1..Len(gen_moves) :
            has_value(gen_moves[i].attacked_piece)
            => PromotedFollowsAsKing(gen_moves[i], gen_capture)

\* A Man has captured with a promotion and goes on, as a King, with the
\* capture of a piece that is not next to it.
C10_Witness ==
    /\ Generated
    /\ \E i \in 1..Len(gen_moves) :
          /\ gen_moves[i].moving_piece.piece_type = MAN
          /\ gen_moves[i].promotion
          /\ \E pair \in FollowCaptures(gen_moves[i]) :
                pair[1] \notin {Square(gen_moves[i].target_position, diagonal, 1) :
                                  diagonal \in Diagonals}

(***************************************************************************)
(* The board the follow moves are searched on.                             *)
(***************************************************************************)
\* The steps <<diagonal, count>> that lead from one position to the other
\* along a diagonal of the board (none or one).
Steps(from, to) ==
    {step \in Diagonals \X (1..7) :
        /\ OnBoard(from, step[1], step[2])
        /\ Square(from, step[1], step[2]) = to}

\* The squares a piece passes and the square it lands on.
PathSquares(from, to) ==
    UNION {{Square(from, step[1], n) : n \in 1..step[2]} :
             step \in Steps(from, to)}

\* Every follow move below the move is searched on a board that still
\* holds the pieces attacked before it on the path.
RECURSIVE CapturedStayOnBoard(_, _)
CapturedStayOnBoard(move, captured) ==
    LET now == captured \cup {move.attacked_piece[1].position}
    IN  \A i \in 1..Len(move.follow_moves) :
           /\ now \subseteq blocking_board_of_side(
                                move.follow_moves[i].source_bit_board,
                                move.attacked_piece[1].side)
           /\ CapturedStayOnBoard(move.follow_moves[i], now)

\* C11 as stated: the source board of every follow move still holds every
\* piece of the other side that was captured before it in the same chain.
C11_CapturedStayOnBoard ==
    Generated =>
        \A i \in 1..Len(gen_moves) :
            has_value(gen_moves[i].attacked_piece)
            => CapturedStayOnBoard(gen_moves[i], {})

\* Every follow move below the move is searched on the target board of the
\* move before it, on which no square attacked before it on the path holds
\* a piece, and it neither passes nor lands on nor attacks such a square.
RECURSIVE CapturedLeaveBoard(_, _)
CapturedLeaveBoard(move, captured) ==
    LET now == captured \cup {move.attacked_piece[1].position}
    IN  \A i \in 1..Len(move.follow_moves) :
           LET follow_move == move.follow_moves[i]
           IN  /\ follow_move.source_bit_board = move.target_bit_board
               /\ now \cap blocking_board(follow_move.source_bit_board) = {}
               /\ now \cap PathSquares(follow_move.moving_piece.position,
                                        follow_move.target_position) = {}
               /\ CapturedLeaveBoard(follow_move, now)

\* C11 (amended): the source board of every follow move is the target board
\* of the move before it, from which every piece captured before it in the
\* chain has been removed; the squares of those pieces are kept from the
\* follow move by the capture mask alone: it neither passes over, nor lands
\* on, nor attacks one of them.
C11_CapturedLeaveBoard ==
    Generated =>
        \A i \in 1..Len(gen_moves) :
            has_value(gen_moves[i].attacked_piece)
            => CapturedLeaveBoard(gen_moves[i], {})

\* A King has captured and stands where, on the board alone, it could go
\* back over the square of the captured piece to a capture that the capture
\* mask keeps from it.
C11_Witness ==
    /\ Generated
    /\ \E i \in 1..Len(gen_moves) :
          LET move == gen_moves[i]
          IN  /\ has_value(move.attacked_piece)
              /\ move.moving_piece.piece_type = KING
              /\ Captures(move.target_bit_board, move.moving_piece.side,
                          move.target_position, TRUE, {})
                 # Captures(move.target_bit_board, move.moving_piece.side,
                            move.target_position, TRUE,
                            {move.attacked_piece[1].position})

(***************************************************************************)
(* The boards of a Move.                                                   *)
(***************************************************************************)
\* The target board of the move is its source board with the source square
\* (which held the moving piece) cleared, the attacked square (which held
\* the attacked piece) cleared when there is one, and the target square
\* (which was free) set in the word of the piece the move leaves there.
MoveFrame(move) ==
    LET side == move.moving_piece.side
        gone == {move.moving_piece.position} \cup
                (IF has_value(move.attacked_piece)
                 THEN {move.attacked_piece[1].position} ELSE {})
        left == IF move.promotion \/ move.moving_piece.piece_type = KING
                THEN KING ELSE MAN
    IN  /\ move.moving_piece.position
               \in pieces_of_side_and_type(move.source_bit_board, side,
                                           move.moving_piece.piece_type)
        /\ move.target_position \notin blocking_board(move.source_bit_board)
        /\ has_value(move.attacked_piece) =>
               move.attacked_piece[1].position
                   \in pieces_of_side_and_type(move.source_bit_board,
                                               side_opposite(side),
                                               move.attacked_piece[1].piece_type)
        /\ \A s \in Sides, t \in PieceTypes :
               pieces_of_side_and_type(move.target_bit_board, s, t)
               = (pieces_of_side_and_type(move.source_bit_board, s, t) \ gone)
                 \cup (IF s = side /\ t = left
                       THEN {move.target_position} ELSE {})

RECURSIVE MoveFrames(_)
MoveFrames(move) ==
    /\ MoveFrame(move)
    /\ \A i \in 1..Len(move.follow_moves) : MoveFrames(move.follow_moves[i])

\* C12: the target board of every move the generator constructs differs
\* from its source board in exactly the source square (cleared), the target
\* square (set in the word of the moving side, the King word if the move
\* promotes or the piece is a King, the Man word otherwise) and, exactly
\* when the move is a capture, the attacked square (cleared).
C12_MoveFrame ==
    Generated => \A i \in 1..Len(gen_moves) : MoveFrames(gen_moves[i])

\* The generator has returned a capture of a Man that promotes: all three
\* squares change and the piece goes to the King word.
C12_Witness ==
    /\ Generated
    /\ \E i \in 1..Len(gen_moves) :
          /\ has_value(gen_moves[i].attacked_piece)
          /\ gen_moves[i].moving_piece.piece_type = MAN
          /\ gen_moves[i].promotion
          /\ gen_moves[i].target_position
                 \in pieces_of_side_and_type(gen_moves[i].target_bit_board,
                                             gen_moves[i].moving_piece.side, KING)

(***************************************************************************)
(* The moves of a side.                                                    *)
(***************************************************************************)
\* C13: generate_moves_for_side returns a list that is not empty exactly
\* when a piece of the side has a legal move: a Man a step forwards to a
\* free square or a jump in any direction over an enemy next to it onto a
\* free square, a King a slide over free squares or a jump over one enemy
\* on a diagonal onto a free square.
C13_MovesIffLegalMove ==
    op = "generate_moves_for_side" =>
        (gen_moves # << >>
         <=> (HasCapture(gen_board, gen_side) \/ HasNormalMove(gen_board, gen_side)))

\* The side has pieces, the other side too, and none of them can move.
C13_Witness ==
    /\ op = "generate_moves_for_side"
    /\ gen_moves = << >>
    /\ blocking_board_of_side(gen_board, gen_side) # {}
    /\ blocking_board_of_side(gen_board, side_opposite(gen_side)) # {}

\* The <<source, target>> positions of the moves of a Man in the list.
ManSteps(moves) ==
    {<<moves[i].moving_piece.position, moves[i].target_position>> :
        i \in {j \in 1..Len(moves) : moves[j].moving_piece.piece_type = MAN}}

\* The steps of the Men of the side by the rules: one square on a diagonal
\* forwards (White to higher rows, Black to lower rows) to a free square of
\* the board.
ForwardSteps(b, side) ==
    {<<position, Square(position, diagonal, 1)>> :
        position \in pieces_of_side_and_type(b, side, MAN),
        diagonal \in {d \in Diagonals :
                        d[1] = (IF side = WHITE THEN 1 ELSE -1)}}
    \cap {step \in Positions \X Positions :
             /\ Row(step[2]) - Row(step[1]) \in {1, -1}
             /\ Column(step[2]) - Column(step[1]) \in {1, -1}
             /\ step[2] \notin blocking_board(b)}

\* The descriptions of the seven moves of White in the start constellation.
SevenMoves ==
    {<<"A", "3", "-", "B", "4">>, <<"C", "3", "-", "B", "4">>,
     <<"C", "3", "-", "D", "4">>, <<"E", "3", "-", "D", "4">>,
     <<"E", "3", "-", "F", "4">>, <<"G", "3", "-", "F", "4">>,
     <<"G", "3", "-", "H", "4">>}

\* C14: when the side has no capture, the moves of Men that
\* generate_moves_for_side returns are exactly the steps of one square on a
\* diagonal to a free square in the two forward directions of the side,
\* none backwards and none across an edge of the board; for White in the
\* start constellation they are the seven moves A3-B4, C3-B4, C3-D4, E3-D4,
\* E3-F4, G3-F4 and G3-H4.
C14_ManStepsForward ==
    (op = "generate_moves_for_side" /\ ~HasCapture(gen_board, gen_side)) =>
        /\ ManSteps(gen_moves) = ForwardSteps(gen_board, gen_side)
        /\ Cardinality({i \in 1..Len(gen_moves) :
                           gen_moves[i].moving_piece.piece_type = MAN})
              = Cardinality(ForwardSteps(gen_board, gen_side))
        /\ \A i \in 1..Len(gen_moves) : ~has_value(gen_moves[i].attacked_piece)
        /\ (gen_board = InitialBitBoard /\ gen_side = WHITE) =>
               /\ Len(gen_moves) = 7
               /\ {description(gen_moves[i]) : i \in 1..Len(gen_moves)} = SevenMoves

\* The moves of White in the start constellation have been generated.
C14_Witness ==
    /\ op = "generate_moves_for_side"
    /\ gen_board = InitialBitBoard
    /\ gen_side = WHITE
    /\ Len(gen_moves) = 7

(***************************************************************************)
(* The comparison of a move with a board.                                  *)
(***************************************************************************)
\* The target boards of the moves without follow moves in the move.
LeafTargets(move) ==
    {node.target_bit_board : node \in {n \in Nodes(move) : n.follow_moves = << >>}}

\* The boards a generated move is compared with: the source and the target
\* boards of all its moves, the board the generator was called on and the
\* start constellation.
ComparedBoards(move) ==
    {node.target_bit_board : node \in Nodes(move)}
    \cup {node.source_bit_board : node \in Nodes(move)}
    \cup {gen_board, InitialBitBoard}

C16_UndoNothingToUndo ==
    (op = "undo_last_move" /\ Len(prev.executed_moves) < 3) => game = prev

\* undo_last_move has been called with 2 executed moves.
C16_Witness ==
    /\ op = "undo_last_move"
    /\ Len(prev.executed_moves) = 2
    /\ Len(executed_moves) = 2
    /\ bit_board # InitialBitBoard

\* The shrunk move is one path of the move from its root to a move without
\* follow moves: the moves on it are those of the move, each with the one
\* follow move that goes on.
RECURSIVE IsPathOf(_, _)
IsPathOf(shrunk, move) ==
    /\ clear_follow_moves(shrunk) = clear_follow_moves(move)
    /\ IF move.follow_moves = << >>
       THEN shrunk.follow_moves = << >>
       ELSE /\ Len(shrunk.follow_moves) = 1
            /\ \E i \in 1..Len(move.follow_moves) :
                  IsPathOf(shrunk.follow_moves[1], move.follow_moves[i])

\* C17: whatever the random choices, random_move(game) returns one of the
\* moves of generate_moves_for_game(game) in which every move has at most
\* one follow move, the moves kept being one path of the generated move
\* from its root to its end.
C17_RandomMoveIsOnePath ==
    LET moves == generate_moves_for_game(game)
    IN  moves # << >> =>
           /\ random_move(game) # {}
           /\ \A returned \in random_move(game) :
                  /\ SinglePath(returned)
                  /\ \E i \in 1..Len(moves) : IsPathOf(returned, moves[i])

\* best_move has returned what random_move returns, a move shrunk to one
\* of several paths.
C17_Witness ==
    /\ op = "best_move"
    /\ BestMoveFallsBack(
           game, EngineSearch(game, engine_level).ancestor_move_bit_board[1])
    /\ arg[1] \in random_move(game)
    /\ arg[1].follow_moves # << >>
    /\ Cardinality(random_move(game)) >= 2

\* The board with the words of White and of Black swapped.
Mirror(b) == BitBoard(b.black_men, b.black_kings, b.white_men, b.white_kings)

\* The value of the board is its material, and the board with the sides
\* swapped has the negated value.
MaterialValue(b) ==
    /\ evaluate_bit_board(b)
          = Cardinality(b.white_men) + 5 * Cardinality(b.white_kings)
            - Cardinality(b.black_men) - 5 * Cardinality(b.black_kings)
    /\ evaluate_bit_board(Mirror(b)) = -evaluate_bit_board(b)

\* C18: evaluate_bit_board(B) is the number of white Men plus 5 times the
\* number of white Kings minus the number of black Men minus 5 times the
\* number of black Kings, so that swapping the words of White and Black
\* negates the value, and the start constellation has the value 0.  Stated
\* for the board of the Game and the boards at the ends of the paths of the
\* move last executed or returned.
C18_EvaluationIsMaterial ==
    /\ evaluate_bit_board(InitialBitBoard) = 0
    /\ MaterialValue(bit_board)
    /\ arg # NoMove => \A b \in LeafBoards(arg[1]) : MaterialValue(b)

\* best_move has searched from a board with a King and a value other than 0.
C18_Witness ==
    /\ op = "best_move"
    /\ bit_board.white_kings \cup bit_board.black_kings # {}
    /\ evaluate_bit_board(bit_board) # 0
    /\ evaluate_bit_board(Mirror(bit_board)) = -evaluate_bit_board(bit_board)

\* The greatest and the least number of a set of numbers that is not empty.
Max(numbers) == CHOOSE x \in numbers : \A y \in numbers : y <= x

Min(numbers) == CHOOSE x \in numbers : \A y \in numbers : x <= y

\* The boards of the child nodes of the node with the board.
Children(b, side) == ChildNodes(<< >>, generate_moves_for_side(b, side), 1)

\* Minimax without pruning over the tree of build_and_evaluate: White takes
\* the greatest, Black the least value of the child nodes; a node at depth
\* 0 or without moves has the value of its board.
RECURSIVE Minimax(_, _, _)
MinimaxOf(child_nodes, b, side, depth) ==
    IF child_nodes = << >> THEN evaluate_bit_board(b)
    ELSE LET values == {Minimax(child_nodes[i], side_opposite(side), depth - 1) :
                          i \in 1..Len(child_nodes)}
         IN  IF side = WHITE THEN Max(values) ELSE Min(values)

Minimax(b, side, depth) ==
    IF depth = 0 THEN evaluate_bit_board(b)
    ELSE MinimaxOf(Children(b, side), b, side, depth)

\* The result of the search is the value of minimax without pruning, and
\* its ancestor board is the board of a child node of the root that has
\* this value.
SearchIsMinimax(engine_result, child_nodes, b, side, depth) ==
    /\ engine_result.evaluation_value = MinimaxOf(child_nodes, b, side, depth)
    /\ engine_result.ancestor_move_bit_board # NULL
    /\ \E i \in 1..Len(child_nodes) :
          /\ child_nodes[i] = engine_result.ancestor_move_bit_board[1]
          /\ Minimax(child_nodes[i], side_opposite(side), depth - 1)
                = engine_result.evaluation_value

\* C19: for the board and the side in turn of every reached Game state with
\* a move and the depths 1 to 2, the value build_and_evaluate returns with
\* alpha-beta pruning from the bounds -100 and 100 is the value of minimax
\* without pruning over the same tree, and the ancestor board returned is
\* the board of a child node of the root whose minimax value is that value.
C19_PruningKeepsMinimax ==
    op = "best_move" =>
        SearchIsMinimax(EngineSearch(game, engine_level),
                        Children(bit_board, current_turn),
                        bit_board, current_turn, engine_level)

\* The value build_and_evaluate returns for child node j of the child nodes
\* of White, called with the greatest minimax value of the child nodes
\* before it as alpha, is not the minimax value of that child node: the
\* loop over its child nodes has been left at the break.
PrunedBelow(child_nodes, j) ==
    LET alpha == Max({ALPHA_START} \cup {Minimax(child_nodes[k], BLACK, 1) :
                                            k \in 1..(j - 1)})
    IN  build_and_evaluate(child_nodes[j], BLACK, 1, alpha, BETA_START,
                           <<child_nodes[j]>>).evaluation_value
        # Minimax(child_nodes[j], BLACK, 1)

\* best_move has searched to depth 2 for White and the search has pruned.
C19_Witness ==
    /\ op = "best_move"
    /\ engine_level = 2
    /\ current_turn = WHITE
    /\ \E j \in 1..Len(Children(bit_board, WHITE)) :
          PrunedBelow(Children(bit_board, WHITE), j)

(***************************************************************************)
(* The squares of a capture.                                               *)
(***************************************************************************)
\* The capture leads count squares along the diagonal from its source over
\* the attacked piece, after before squares, to its target: all squares are
\* on the board, the attacked square holds a piece of the other side of the
\* recorded type on the source board, and every other square up to the
\* target is empty on it.
CaptureAlong(move, diagonal, before, count) ==
    LET source == move.moving_piece.position
        attacked == move.attacked_piece[1]
        b == move.source_bit_board
    IN  /\ OnBoard(source, diagonal, count)
        /\ Square(source, diagonal, before) = attacked.position
        /\ Square(source, diagonal, count) = move.target_position
        /\ attacked.side = side_opposite(move.moving_piece.side)
        /\ attacked.position
              \in pieces_of_side_and_type(b, attacked.side, attacked.piece_type)
        /\ \A n \in (1..count) \ {before} :
              Square(source, diagonal, n) \notin blocking_board(b)
        /\ move.moving_piece.piece_type = MAN => before = 1 /\ count = 2

CaptureGeometry(move) ==
    \E diagonal \in Diagonals, count \in 2..7 :
       \E before \in 1..(count - 1) :
          CaptureAlong(move, diagonal, before, count)

\* The captures among the nodes of the moves.
CaptureNodes(moves) ==
    {node \in UNION {Nodes(moves[i]) : i \in 1..Len(moves)} :
        has_value(node.attacked_piece)}

\* C20: every capture the generator produces, first or follow move, of a Man
\* or a King, has its source, attacked and target square in this order on
\* one diagonal of the board; the attacked square holds a piece of the other
\* side of the recorded type on the source board of the capture, the target
\* and every other square between are empty there, and a Man attacks the
\* next square and lands on the one behind it.
C20_CapturesAlongDiagonal ==
    \A node \in CaptureNodes(gen_moves) : CaptureGeometry(node)

\* The generator has produced a capture of a King that slides before and
\* after the attacked piece and has a follow move along another diagonal.
C20_Witness ==
    \E i \in 1..Len(gen_moves) :
       /\ has_value(gen_moves[i].attacked_piece)
       /\ gen_moves[i].moving_piece.piece_type = KING
       /\ \E diagonal \in Diagonals :
             /\ CaptureAlong(gen_moves[i], diagonal, 2, 4)
             /\ \E j \in 1..Len(gen_moves[i].follow_moves) :
                   \E other \in Diagonals \ {diagonal}, count \in 2..7 :
                      \E before \in 1..(count - 1) :
                         CaptureAlong(gen_moves[i].follow_moves[j], other,
                                      before, count)

(***************************************************************************)
(* Jump chains of the Game.                                                *)
(***************************************************************************)
\* The executed moves i to j are moves of one side.
SameChain(moves, i, j) ==
    \A k \in i..j : moves[k].moving_piece.side = moves[i].moving_piece.side

\* The positions attacked by the moves played so far in the chain the side
\* in turn is in (none when the last executed move is of the other side).
ChainCaptured(moves, turn) ==
    {moves[i].attacked_piece[1].position :
        i \in {k \in 1..Len(moves) :
                 /\ moves[k].moving_piece.side = turn
                 /\ SameChain(moves, k, Len(moves))
                 /\ has_value(moves[k].attacked_piece)}}

\* No later move of a chain of executed moves passes, lands on or attacks
\* the position an earlier move of the chain has attacked.
PlayedChainsKeepOff(moves) ==
    \A i \in 1..Len(moves) :
       \A j \in (i + 1)..Len(moves) :
          SameChain(moves, i, j) =>
             /\ has_value(moves[i].attacked_piece)
             /\ moves[i].attacked_piece[1].position
                  \notin PathSquares(moves[j].moving_piece.position,
                                     moves[j].target_position)

\* No move of the tree passes, lands on or attacks a captured position or
\* a position attacked by a move above it in the tree.
RECURSIVE TreeKeepsOff(_, _)
TreeKeepsOff(move, captured) ==
    /\ captured \cap PathSquares(move.moving_piece.position,
                                 move.target_position) = {}
    /\ \A i \in 1..Len(move.follow_moves) :
          TreeKeepsOff(move.follow_moves[i],
                       captured \cup {move.attacked_piece[1].position})

TreesKeepOff(moves, captured) ==
    \A i \in 1..Len(moves) : TreeKeepsOff(moves[i], captured)

\* C21: in every chain of captures, played move by move with execute_move
\* and generate_moves_for_game or generated as one tree, no move passes,
\* lands on or attacks the position of a piece that an earlier move of the
\* chain has captured.
C21_CapturedSquaresBlock ==
    /\ PlayedChainsKeepOff(executed_moves)
    /\ TreesKeepOff(generate_moves_for_game(game),
                    ChainCaptured(executed_moves, current_turn))

\* The Game is in a move combo in which the piece, on the board alone,
\* would have other moves than those the captured positions leave to it.
C21_Witness ==
    /\ op = "execute_move"
    /\ in_move_combo(game)
    /\ ChainCaptured(executed_moves, current_turn) # {}
    /\ generate_moves_for_piece(bit_board, move_combo_piece(game), {})
         # generate_moves_for_game(game)

\* C22: after execute_move on a move of generate_moves_for_game the Game is
\* in a move combo exactly when the move was a capture passed with at least
\* one follow move; after a move without follow moves it is not, and the
\* other side is in turn.
C22_ComboIffFollowMoves ==
    op = "execute_move" =>
        /\ in_move_combo(game)
              <=> (has_value(arg[1].attacked_piece) /\ arg[1].follow_moves # << >>)
        /\ arg[1].follow_moves = << >> =>
              /\ ~in_move_combo(game)
              /\ current_turn = side_opposite(prev.current_turn)
        /\ arg[1].follow_moves # << >> => current_turn = prev.current_turn

\* A capture with follow moves has been executed after a capture without
\* one: the Game is in a move combo, and was not after the capture before.
C22_Witness ==
    /\ op = "execute_move"
    /\ in_move_combo(game)
    /\ arg[1].follow_moves # << >>
    /\ ~in_move_combo(prev)
    /\ prev.executed_moves # << >>
    /\ has_value(back(prev.executed_moves).attacked_piece)

(***************************************************************************)
(* The material and the bounds of the search.                              *)
(***************************************************************************)
\* The number of pieces of the side on the board.
PieceCount(b, side) == Cardinality(blocking_board_of_side(b, side))

\* The boards of the nodes of the tree build_and_evaluate builds without
\* pruning from the board to the depth.
RECURSIVE TreeBoards(_, _, _)
TreeBoardsBelow(child_nodes, side, depth) ==
    UNION {TreeBoards(child_nodes[i], side_opposite(side), depth - 1) :
             i \in 1..Len(child_nodes)}

TreeBoards(b, side, depth) ==
    IF depth = 0 THEN {b}
    ELSE {b} \cup TreeBoardsBelow(Children(b, side), side, depth)

\* No side has more than 12 pieces on the board and its value lies in
\* -60..60, strictly between the bounds the search starts with.
MaterialBounded(b) ==
    /\ \A side \in Sides : PieceCount(b, side) <= 12
    /\ evaluate_bit_board(b) \in -60..60
    /\ ALPHA_START < evaluate_bit_board(b)
    /\ evaluate_bit_board(b) < BETA_START

\* C23: in every reached Game state no side has more than 12 pieces, no
\* executed move has more pieces of a side on its target board than on
\* its source board, and every board of the tree that best_move searches
\* has a value in -60..60, strictly between -100 and 100.
C23_MaterialBelowSentinels ==
    /\ MaterialBounded(bit_board)
    /\ \A i \in 1..Len(executed_moves) : \A side \in Sides :
          PieceCount(executed_moves[i].target_bit_board, side)
            <= PieceCount(executed_moves[i].source_bit_board, side)
    /\ op = "best_move" =>
          \A b \in TreeBoards(bit_board, current_turn, engine_level) :
             MaterialBounded(b)

\* best_move has searched to depth 2 from a board on which both sides have
\* lost pieces and a King stands, and the tree holds boards of different
\* value.
C23_Witness ==
    /\ op = "best_move"
    /\ engine_level = 2
    /\ \A side \in Sides : PieceCount(bit_board, side) < 12
    /\ bit_board.white_kings \cup bit_board.black_kings # {}
    /\ \E b \in TreeBoards(bit_board, current_turn, engine_level) :
          evaluate_bit_board(b) # evaluate_bit_board(bit_board)

\* C24: after execute_move on a capture of generate_moves_for_game passed
\* with its follow moves, generate_moves_for_game returns the follow moves
\* of that capture: the same moves in the same order, each with the same
\* follow moves below it; so also after a follow move of a follow move.
C24_GameFollowsTree ==
    (op = "execute_move" /\ arg[1].follow_moves # << >>) =>
        generate_moves_for_game(game) = arg[1].follow_moves

\* A follow move with follow moves of its own has been executed in a move
\* combo.
C24_Witness ==
    /\ op = "execute_move"
    /\ in_move_combo(prev)
    /\ arg[1].follow_moves # << >>
    /\ generate_moves_for_game(game) # << >>

(***************************************************************************)
(* The length of a jump chain.                                             *)
(***************************************************************************)
\* The number of moves on the longest path of the move.
RECURSIVE Height(_)
Height(move) ==
    IF move.follow_moves = << >> THEN 1
    ELSE 1 + Max({Height(move.follow_moves[i]) :
                    i \in 1..Len(move.follow_moves)})

\* Every path of every move is no longer than the number.
PathsWithin(moves, number) ==
    \A i \in 1..Len(moves) : Height(moves[i]) <= number

\* In a move combo there is a move, and no path of a move is longer than
\* the number of pieces the other side has left.
ComboGoesOn(g, moves) ==
    in_move_combo(g) =>
        /\ moves # << >>
        /\ PathsWithin(moves, PieceCount(g.bit_board, side_opposite(g.current_turn)))

\* C25: in a move combo generate_moves_for_game returns at least one move
\* and every path of it ends after at most as many moves as the other side
\* has pieces, so that executing returned moves leaves the combo; and the
\* executed moves of one side in a row are at most as many as the pieces
\* the other side had on the board the first of them started from.
C25_ChainsEnd ==
    /\ ComboGoesOn(game, generate_moves_for_game(game))
    /\ \A i \in 1..Len(executed_moves) :
          \A j \in i..Len(executed_moves) :
             SameChain(executed_moves, i, j) =>
                j - i + 1 <= PieceCount(
                                 executed_moves[i].source_bit_board,
                                 side_opposite(executed_moves[i].moving_piece.side))

\* A chain of two or more executed moves has ended and the turn has passed
\* to the other side.
C25_Witness ==
    /\ op = "execute_move"
    /\ in_move_combo(prev)
    /\ ~in_move_combo(game)
    /\ current_turn # prev.current_turn
    /\ generate_moves_for_game(prev) # << >>

(***************************************************************************)
(* The history of the Game.                                                *)
(***************************************************************************)
\* The executed moves have no follow moves and lead from the initial board
\* from board to board.
HistoryLinked(moves) ==
    \A i \in 1..Len(moves) :
       /\ moves[i].follow_moves = << >>
       /\ moves[i].source_bit_board
            = IF i = 1 THEN InitialBitBoard ELSE moves[i - 1].target_bit_board

\* C26: in every Game state reached by execute_move on moves of
\* generate_moves_for_game and by undo_last_move, every executed move has
\* no follow moves, the first one starts from the initial board and every
\* later one from the target board of the one before it.
C26_HistoryLinked == HistoryLinked(executed_moves)

\* undo_last_move has taken moves, a capture among them, from a history
\* of moves that were passed to execute_move, and has left two or more.
C26_Witness ==
    /\ op = "undo_last_move"
    /\ Len(executed_moves) >= 2
    /\ Len(executed_moves) < Len(prev.executed_moves)
    /\ \E i \in (Len(executed_moves) + 1)..Len(prev.executed_moves) :
          has_value(prev.executed_moves[i].attacked_piece)

(***************************************************************************)
(* Whole turns and undo_last_move.                                         *)
(***************************************************************************)
\* The Games after a whole turn of the side in turn: execute_move on a move
\* of generate_moves_for_game, passed with its follow moves, until the
\* Game is no longer in a move combo.
RECURSIVE TurnResults(_)
TurnMoves(g, moves) ==
    UNION {IF moves[i].follow_moves = << >>
           THEN {execute_move(g, moves[i])}
           ELSE TurnResults(execute_move(g, moves[i])) :
             i \in 1..Len(moves)}

TurnResults(g) == TurnMoves(g, generate_moves_for_game(g))

\* The Games after a whole turn of each side.
TwoTurns(g) == UNION {TurnResults(after) : after \in TurnResults(g)}

\* C27: from every reached Game state that is not in a move combo and has
\* an executed move, after a whole turn of the side in turn and a whole
\* turn of the other side one undo_last_move gives back the board, the
\* turn and the executed moves.
C27_UndoTakesBackTwoTurns ==
    (executed_moves # << >> /\ ~in_move_combo(game)) =>
        \A later \in TwoTurns(game) :
            ~UndoUndefined(later) /\ undo_last_move(later) = game

\* From the Game there are two turns of which one is a chain of several
\* moves.
C27_Witness ==
    /\ executed_moves # << >>
    /\ ~in_move_combo(game)
    /\ \E later \in TwoTurns(game) :
          /\ Len(later.executed_moves) > Len(executed_moves) + 2
          /\ undo_last_move(later) = game

\* C28: in every reached Game state no call of undo_last_move has read the
\* last entry of an empty vector, and a call with 3 or more executed moves
\* leaves an entry after each of its loops and takes the board from the
\* entry left last.
C28_UndoLeavesAnEntry ==
    /\ op # "undefined"
    /\ ~UndoUndefined(game)
    /\ Len(executed_moves) >= 3 =>
          /\ PopWhile(executed_moves, current_turn, FALSE) # << >>
          /\ UndoPopped(game) # << >>
          /\ undo_last_move(game).executed_moves = UndoPopped(game)
          /\ undo_last_move(game).bit_board = back(UndoPopped(game)).target_bit_board

\* undo_last_move has been called with 3 or more executed moves and has
\* left one.
C28_Witness ==
    /\ op = "undo_last_move"
    /\ Len(prev.executed_moves) >= 3
    /\ Len(executed_moves) = 1

(***************************************************************************)
(* The ancestor board of the search.                                       *)
(***************************************************************************)
\* The result carries a board, and it is the board of a child node.
AncestorIsChild(engine_result, child_nodes) ==
    /\ engine_result.ancestor_move_bit_board # NULL
    /\ \E i \in 1..Len(child_nodes) :
          child_nodes[i] = engine_result.ancestor_move_bit_board[1]

\* C29: best_move, called with depth 1 or 2 in a reached Game state with a
\* legal move, has never got a result of build_and_evaluate without an
\* ancestor board (which it would dereference), and the ancestor board of
\* the result is the board of a child node of the root.
C29_AncestorNotNull ==
    /\ op # "undefined"
    /\ op = "best_move" =>
          /\ arg # NoMove
          /\ AncestorIsChild(EngineSearch(game, engine_level),
                             Children(bit_board, current_turn))

\* best_move has searched from a board with several child nodes and the
\* ancestor board of the result is not the board of the first of them.
C29_Witness ==
    /\ op = "best_move"
    /\ Len(Children(bit_board, current_turn)) >= 2
    /\ EngineSearch(game, engine_level).ancestor_move_bit_board
         # <<Children(bit_board, current_turn)[1]>>
    /\ AncestorIsChild(EngineSearch(game, engine_level),
                       Children(bit_board, current_turn))

(***************************************************************************)
(* The descriptions of the moves of a list.                                *)
(***************************************************************************)
\* The source, attacked and target position of the move.
MoveSquares(move) ==
    <<move.moving_piece.position,
      IF has_value(move.attacked_piece)
      THEN <<move.attacked_piece[1].position>> ELSE << >>,
      move.target_position>>

\* Move::operator==
MoveEqual(move, other) ==
    /\ move.source_bit_board = other.source_bit_board
    /\ move.target_bit_board = other.target_bit_board

\* No two moves of the list have the same description, the same source,
\* attacked and target position, or are equal as Moves.
DistinctMoves(moves) ==
    \A i \in 1..Len(moves) :
       \A j \in (i + 1)..Len(moves) :
          /\ description(moves[i]) # description(moves[j])
          /\ MoveSquares(moves[i]) # MoveSquares(moves[j])
          /\ ~MoveEqual(moves[i], moves[j])

\* The moves of the list with the description.
Described(moves, text) ==
    {i \in 1..Len(moves) : description(moves[i]) = text}

\* C30: in the list generate_moves_for_game returns in a reached Game state
\* no two moves have the same description (or the same source, attacked
\* and target position) and no two are equal as Moves, so a description
\* selects at most one move of the list.
C30_DescriptionsDistinct ==
    DistinctMoves(generate_moves_for_game(game))

\* The list holds two captures of one King over the same piece that differ
\* in the target only.
TwoLandings(moves) ==
    \E i \in 1..Len(moves) :
       \E j \in (i + 1)..Len(moves) :
          /\ has_value(moves[i].attacked_piece)
          /\ moves[i].attacked_piece = moves[j].attacked_piece
          /\ moves[i].moving_piece = moves[j].moving_piece
          /\ Cardinality(Described(moves, description(moves[i]))) = 1

C30_Witness ==
    /\ op = "execute_move"
    /\ TwoLandings(generate_moves_for_game(game))

====
